---------------------------- MODULE Spec2Model ----------------------------
(***************************************************************************)
(* Model of the horoscope API server (src/server.js): the week normaliser  *)
(* getWeekStart, the POST /api/horoscopes upsert handler and the two GET   *)
(* handlers, over two MongoDB collections with a unique compound index.    *)
(***************************************************************************)
EXTENDS Integers, Sequences, FiniteSets, TLC

VARIABLES
    tz,          \* the process's local time zone offset, minutes east of UTC
    dailyCol,    \* documents of daily_horoscopes
    weeklyCol,   \* documents of weekly_horoscopes
    pc,          \* per request slot: where the POST handler is suspended
    body,        \* per request slot: req.body of the POST being handled
    results,     \* per request slot: the handler's local `results`
    postResp,    \* the last response sent by POST /api/horoscopes
    getResp,     \* the last response sent by a GET handler
    lastWrite,   \* history: per kind and key, the body of the last POST whose
                 \* updateOne on that key succeeded
    nSubmits,    \* history: number of POST requests received
    phase,       \* getWeekStart harness: position
    arg,         \* getWeekStart harness: the two input dates
    ret,         \* getWeekStart harness: the two results
    ret2         \* getWeekStart harness: getWeekStart of the first result

vars == <<tz, dailyCol, weeklyCol, pc, body, results, postResp, getResp, lastWrite,
          nSubmits, phase, arg, ret, ret2>>

serverVars == <<dailyCol, weeklyCol, pc, body, results, postResp, getResp, lastWrite,
                nSubmits>>

harnessVars == <<phase, arg, ret, ret2>>

-----------------------------------------------------------------------------
(* Bounds *)

\* request slots handled concurrently
MaxReq == 2

\* POST requests received in one behaviour
MaxSubmits == 2

\* days on either side of the first harness date from which the second is drawn
MaxSpan == 6

-----------------------------------------------------------------------------
(* Calendar arithmetic of the JavaScript Date object.  A date string       *)
(* "YYYY-MM-DD" is the tuple <<y, m, d>>; a time value is in minutes since *)
(* 1970-01-01T00:00Z.                                                      *)

MinutesPerDay == 1440

\* The offsets of the zones the process may run in (TZ of the host), zones
\* with a fixed offset: UTC-5, UTC and UTC+5:30.
TZOffsets == {-300, 0, 330}

Years == 2023..2025

IsLeap(y) == (y % 4 = 0 /\ y % 100 # 0) \/ y % 400 = 0

DaysInMonth(y, m) ==
    IF m = 2 THEN (IF IsLeap(y) THEN 29 ELSE 28)
    ELSE IF m \in {4, 6, 9, 11} THEN 30 ELSE 31

DaysInYear(y) == IF IsLeap(y) THEN 366 ELSE 365

\* Day number of January 1st of year y.
DayFromYear(y) ==
    365 * (y - 1970) + ((y - 1969) \div 4) - ((y - 1901) \div 100)
        + ((y - 1601) \div 400)

RECURSIVE DaysBeforeMonth(_, _)
DaysBeforeMonth(y, m) ==
    IF m = 1 THEN 0 ELSE DaysBeforeMonth(y, m - 1) + DaysInMonth(y, m - 1)

\* Day number of day-of-month `dt` of month m of year y; dt may lie outside
\* the month (setDate's overflow into the neighbouring months).
MakeDay(y, m, dt) == DayFromYear(y) + DaysBeforeMonth(y, m) + dt - 1

Day(t) == t \div MinutesPerDay

TimeWithinDay(t) == t % MinutesPerDay

YearFromDay(n) ==
    CHOOSE y \in Years : DayFromYear(y) <= n /\ n < DayFromYear(y) + DaysInYear(y)

MonthFromDay(n) ==
    LET y == YearFromDay(n)
        k == n - DayFromYear(y)
    IN  CHOOSE m \in 1..12 :
            DaysBeforeMonth(y, m) <= k /\ k < DaysBeforeMonth(y, m) + DaysInMonth(y, m)

DateFromDay(n) ==
    LET y == YearFromDay(n)
    IN  n - DayFromYear(y) - DaysBeforeMonth(y, MonthFromDay(n)) + 1

\* 0 = Sunday ... 6 = Saturday; day 0 (1970-01-01) is a Thursday.
WeekDay(n) == (n + 4) % 7

\* new Date("YYYY-MM-DD"): a date-only ISO string is UTC midnight.
ParseDate(s) == MakeDay(s[1], s[2], s[3]) * MinutesPerDay

LocalTime(t, off) == t + off

UTC(t, off) == t - off

\* date.getDay(), in local time
getDay(t, off) == WeekDay(Day(LocalTime(t, off)))

\* date.getDate(), in local time
getDate(t, off) == DateFromDay(Day(LocalTime(t, off)))

\* date.setDate(dt): the day of the month of the local time is replaced, the
\* local time of day is kept.
setDate(t, dt, off) ==
    LET lt == LocalTime(t, off)
        n  == Day(lt)
    IN  UTC(MakeDay(YearFromDay(n), MonthFromDay(n), dt) * MinutesPerDay
              + TimeWithinDay(lt), off)

\* date.toISOString().split('T')[0]: the UTC calendar date
toISODate(t) ==
    LET n == Day(t) IN <<YearFromDay(n), MonthFromDay(n), DateFromDay(n)>>

getWeekStart(dateStr, off) ==
    LET date == ParseDate(dateStr)
        day  == getDay(date, off)
        diff == getDate(date, off) - day + (IF day = 0 THEN -6 ELSE 1)
    IN  toISODate(setDate(date, diff, off))

NoDate == <<>>

-----------------------------------------------------------------------------
(* Reference calendar, independent of getWeekStart: used to state claims.  *)

DayOfDate(s) == MakeDay(s[1], s[2], s[3])

\* The Monday on or before day n.
MondayOnOrBefore(n) == n - ((n + 3) % 7)

IsMonday(s) == WeekDay(DayOfDate(s)) = 1

SameWeek(s1, s2) ==
    MondayOnOrBefore(DayOfDate(s1)) = MondayOnOrBefore(DayOfDate(s2))

-----------------------------------------------------------------------------
(* JavaScript values carried by a request and stored in a document.  A     *)
(* string is a sequence (of characters for a sign id, of words for a text, *)
(* <<y, m, d>> for a date); the empty string is <<>>.                      *)

Undefined == [t |-> "undefined", n |-> 0, s |-> <<>>]

NaN == [t |-> "NaN", n |-> 0, s |-> <<>>]

Num(k) == [t |-> "number", n |-> k, s |-> <<>>]

Str(x) == [t |-> "string", n |-> 0, s |-> x]

EmptyStr == Str(<<>>)

\* Mutant: only undefined is falsy.
TruthyUnlessUndefined(v) == v # Undefined

\* ToBoolean: undefined, NaN, 0 and "" are falsy.
Truthy(v) ==
    \/ v.t = "string" /\ v.s # <<>>
    \/ v.t = "number" /\ v.n # 0

\* Mutant: a missing text is replaced by a placeholder text.
OrPlaceholder(v) == IF v.t = "string" /\ v.s # <<>> THEN v ELSE Str(<<"TBD">>)

\* v || ''
OrEmpty(v) == IF Truthy(v) THEN v ELSE EmptyStr

Digits == <<"0", "1", "2", "3", "4", "5", "6", "7", "8", "9">>

IsDigit(c) == \E i \in 1..Len(Digits) : Digits[i] = c

DigitValue(c) == (CHOOSE i \in 1..Len(Digits) : Digits[i] = c) - 1

RECURSIVE ParseDigits(_, _)
\* the value of the longest prefix of digits of cs, after the value acc
ParseDigits(cs, acc) ==
    IF cs = <<>> \/ ~IsDigit(Head(cs)) THEN acc
    ELSE ParseDigits(Tail(cs), 10 * acc + DigitValue(Head(cs)))

\* parseInt(req.params.signId): NaN unless the text starts with a digit
parseInt(cs) ==
    IF cs = <<>> \/ ~IsDigit(Head(cs)) THEN NaN ELSE Num(ParseDigits(cs, 0))

-----------------------------------------------------------------------------
(* The MongoDB collections: sets of documents, a document a function from  *)
(* field names to values.                                                  *)

Field(doc, f) == IF f \in DOMAIN doc THEN doc[f] ELSE Undefined

\* An equality filter matches a document that has every field of the filter
\* with the same type and value.
Matches(doc, filter) ==
    \A f \in DOMAIN filter : f \in DOMAIN doc /\ doc[f] = filter[f]

Find(col, filter) == {d \in col : Matches(d, filter)}

\* Mutant: symbol is written only when the document has none yet.
ApplySetPartial(doc, set) ==
    [f \in DOMAIN doc \cup DOMAIN set |->
        IF f \in DOMAIN set /\ (f # "symbol" \/ f \notin DOMAIN doc)
        THEN set[f] ELSE doc[f]]

\* The fields of `set` written over those of `doc`.
ApplySet(doc, set) ==
    [f \in DOMAIN doc \cup DOMAIN set |->
        IF f \in DOMAIN set THEN set[f] ELSE doc[f]]

\* Mutant: a plain insert, whether or not a document matches.
updateOneInsertOnly(col, filter, set) ==
    [col |-> col \cup {ApplySet(filter, set)}, upserted |-> TRUE]

\* Mutant: the written document replaces the whole collection.
updateOneReplacing(col, filter, set) ==
    LET found == Find(col, filter)
    IN  IF found # {}
        THEN LET d == CHOOSE x \in found : TRUE
             IN  [col |-> {ApplySet(d, set)}, upserted |-> FALSE]
        ELSE [col |-> {ApplySet(filter, set)}, upserted |-> TRUE]

\* collection.updateOne(filter, {$set: set}, {upsert: true}), atomic in the
\* store: the first matching document is updated in place, and when none
\* matches a document made of the filter's fields and `set` is inserted.
updateOne(col, filter, set) ==
    LET found == Find(col, filter)
    IN  IF found # {}
        THEN LET d == CHOOSE x \in found : TRUE
             IN  [col |-> (col \ {d}) \cup {ApplySet(d, set)}, upserted |-> FALSE]
        ELSE [col |-> col \cup {ApplySet(filter, set)}, upserted |-> TRUE]

\* Mutant: the lookup is by sign_id alone.
findOneBySignId(col, filter) ==
    LET found == {d \in col : d.sign_id = filter.sign_id}
    IN  IF found = {} THEN <<>> ELSE CHOOSE x \in found : TRUE

\* collection.findOne(filter): a matching document, or null (<<>>)
findOne(col, filter) ==
    LET found == Find(col, filter)
    IN  IF found = {} THEN <<>> ELSE CHOOSE x \in found : TRUE

-----------------------------------------------------------------------------
(* Requests *)

Slots == 1..MaxReq

Monday == <<2024, 6, 10>>

Wednesday == <<2024, 6, 12>>

SubmitDates == {Monday, Wednesday}

RequestDates == SubmitDates

SignIds == {Num(1), Num(2), Str(<<"1">>)}

\* Two callers, each with its own sign_name, symbol and texts; the first
\* leaves out a text it does not send, the second sends it empty.
Callers == {
    [sign_name |-> Str(<<"Aries">>), symbol |-> Str(<<"ram">>),
     daily |-> Str(<<"Good", "day">>), weekly |-> Str(<<"Good", "week">>),
     absent |-> Undefined],
    [sign_name |-> Str(<<"Mesha">>), symbol |-> Str(<<"R">>),
     daily |-> Str(<<"Busy", "day">>), weekly |-> Str(<<"Busy", "week">>),
     absent |-> EmptyStr]}

MakeBody(id, name, sym, dly, wkly, date) ==
    [sign_id |-> id, sign_name |-> name, symbol |-> sym,
     daily_horoscope |-> dly, weekly_horoscope |-> wkly, horoscope_date |-> date]

\* The bodies of caller c, every required field present.
BodiesOf(c) ==
    {MakeBody(id, c.sign_name, c.symbol, dly, wkly, Str(d)) :
        id \in SignIds,
        dly \in {c.absent, c.daily}, wkly \in {c.absent, c.weekly},
        d \in SubmitDates}

CompleteBodies == UNION {BodiesOf(c) : c \in Callers}

RequiredFields == {"sign_id", "sign_name", "symbol", "horoscope_date"}

\* Bodies with one required field missing, empty or (sign_id) zero.
IncompleteBodies ==
    LET base == MakeBody(Num(1), Str(<<"Aries">>), Str(<<"ram">>),
                         Str(<<"Good", "day">>), Str(<<"Good", "week">>),
                         Str(Wednesday))
    IN  {[base EXCEPT ![f] = v] : f \in RequiredFields, v \in {Undefined, EmptyStr}}
            \cup {[base EXCEPT !.sign_id = Num(0)]}

Bodies == CompleteBodies \cup IncompleteBodies

\* The bodies of the POSTs handled among the GETs: those of the first
\* caller that carry one text.
ReadBodies ==
    {b \in CompleteBodies :
        /\ b.sign_name = Str(<<"Aries">>)
        /\ Truthy(OrEmpty(b.daily_horoscope)) # Truthy(OrEmpty(b.weekly_horoscope))}

\* The bodies of the concurrent POSTs: those about one sign, whose sign_id
\* is not a (non-empty) string.
PostBodies ==
    {b \in Bodies :
        /\ b.sign_id.t = "string" => b.sign_id.s = <<>>
        /\ b.sign_id # Num(2)}

-----------------------------------------------------------------------------
(* POST /api/horoscopes *)

\* Mutant: `results` starts with a daily sub-result.
ResultsWithDaily == [daily |-> "updated", weekly |-> "none"]

\* line 75: let results = {}
NoResults == [daily |-> "none", weekly |-> "none"]

NoBody == <<>>

\* Mutant: symbol is not checked.
HasRequiredFieldsNoSymbol(b) ==
    /\ Truthy(b.sign_id)
    /\ Truthy(b.sign_name)
    /\ Truthy(b.horoscope_date)

\* line 69: the 400 guard, negated
HasRequiredFields(b) ==
    /\ Truthy(b.sign_id)
    /\ Truthy(b.sign_name)
    /\ Truthy(b.symbol)
    /\ Truthy(b.horoscope_date)

\* Mutant: the filter also names an editable field.
DailyFilterWithName(b) ==
    [sign_id |-> b.sign_id, horoscope_date |-> b.horoscope_date,
     sign_name |-> b.sign_name]

DailyFilter(b) == [sign_id |-> b.sign_id, horoscope_date |-> b.horoscope_date]

DailySet(b) ==
    [sign_name |-> b.sign_name, symbol |-> b.symbol,
     daily_horoscope |-> OrEmpty(b.daily_horoscope),
     horoscope_date |-> b.horoscope_date]

\* getWeekStart over the dates of the requests, in each zone
WeekStarts ==
    [d \in RequestDates, off \in TZOffsets |-> getWeekStart(d, off)]

WeekStartOf(b) == Str(WeekStarts[b.horoscope_date.s, tz])

WeeklyFilter(b) == [sign_id |-> b.sign_id, week_start_date |-> WeekStartOf(b)]

WeeklySet(b) ==
    [sign_name |-> b.sign_name, symbol |-> b.symbol,
     weekly_horoscope |-> OrEmpty(b.weekly_horoscope),
     week_start_date |-> WeekStartOf(b)]

\* res.status(status).json(...): the status and, with 200, `results`
PostResponse(status, res) == [status |-> status, results |-> res]

\* The answer of a GET handler: the status and the body (for fetchOne the
\* response object as the one element of `out`; <<>> with an error).
GetResponse(op, status, out) == [op |-> op, status |-> status, out |-> out]

ServerInit ==
    /\ dailyCol = {}
    /\ weeklyCol = {}
    /\ pc = [r \in Slots |-> "idle"]
    /\ body = [r \in Slots |-> NoBody]
    /\ results = [r \in Slots |-> NoResults]
    /\ postResp = PostResponse(0, NoResults)
    /\ getResp = GetResponse("none", 0, <<>>)
    /\ lastWrite = {}
    /\ nSubmits = 0

\* The handler up to its first await: the 400 guard, then either the first
\* updateOne is issued or, with no text to write, the 200 response is sent.
Submit(r, b) ==
    /\ pc[r] = "idle"
    /\ \A q \in Slots : pc[q] = "idle" => r <= q
    /\ nSubmits < MaxSubmits
    /\ nSubmits' = nSubmits + 1
    /\ IF ~HasRequiredFields(b)
       THEN /\ postResp' = PostResponse(400, NoResults)
            /\ UNCHANGED <<pc, body, results>>
       ELSE IF Truthy(OrEmpty(b.daily_horoscope))
       THEN /\ pc' = [pc EXCEPT ![r] = "daily"]
            /\ body' = [body EXCEPT ![r] = b]
            /\ results' = [results EXCEPT ![r] = NoResults]
            /\ UNCHANGED postResp
       ELSE IF Truthy(OrEmpty(b.weekly_horoscope))
       THEN /\ pc' = [pc EXCEPT ![r] = "weekly"]
            /\ body' = [body EXCEPT ![r] = b]
            /\ results' = [results EXCEPT ![r] = NoResults]
            /\ UNCHANGED postResp
       ELSE /\ postResp' = PostResponse(200, NoResults)
            /\ UNCHANGED <<pc, body, results>>
    /\ UNCHANGED <<tz, dailyCol, weeklyCol, getResp, lastWrite, harnessVars>>

\* The history after the POST with body b has written the record of `kind`
\* with key (id, date).
Written(kind, id, date, b) ==
    {w \in lastWrite : ~(w.kind = kind /\ w.sign_id = id /\ w.date = date)}
        \cup {[kind |-> kind, sign_id |-> id, date |-> date, req |-> b]}

InsertId(o) == IF o.upserted THEN "upsertedId" ELSE "updated"

\* The daily updateOne takes effect and the handler resumes: it records
\* results.daily and issues the weekly updateOne, or sends the 200 response.
DailyUpsert(r) ==
    /\ pc[r] = "daily"
    /\ LET b   == body[r]
           o   == updateOne(dailyCol, DailyFilter(b), DailySet(b))
           res == [results[r] EXCEPT !.daily = InsertId(o)]
       IN  /\ dailyCol' = o.col
           /\ lastWrite' = Written("daily", b.sign_id, b.horoscope_date, b)
           /\ IF Truthy(OrEmpty(b.weekly_horoscope))
              THEN /\ pc' = [pc EXCEPT ![r] = "weekly"]
                   /\ results' = [results EXCEPT ![r] = res]
                   /\ UNCHANGED <<body, postResp>>
              ELSE /\ pc' = [pc EXCEPT ![r] = "idle"]
                   /\ body' = [body EXCEPT ![r] = NoBody]
                   /\ results' = [results EXCEPT ![r] = NoResults]
                   /\ postResp' = PostResponse(200, res)
    /\ UNCHANGED <<tz, weeklyCol, getResp, nSubmits, harnessVars>>

\* The weekly updateOne takes effect and the handler sends the 200 response.
WeeklyUpsert(r) ==
    /\ pc[r] = "weekly"
    /\ LET b   == body[r]
           o   == updateOne(weeklyCol, WeeklyFilter(b), WeeklySet(b))
           res == [results[r] EXCEPT !.weekly = InsertId(o)]
       IN  /\ weeklyCol' = o.col
           /\ lastWrite' = Written("weekly", b.sign_id, WeekStartOf(b), b)
           /\ postResp' = PostResponse(200, res)
    /\ pc' = [pc EXCEPT ![r] = "idle"]
    /\ body' = [body EXCEPT ![r] = NoBody]
    /\ results' = [results EXCEPT ![r] = NoResults]
    /\ UNCHANGED <<tz, dailyCol, getResp, nSubmits, harnessVars>>

\* The pending updateOne rejects (StoreError): the catch block answers 500.
StoreFailure(r) ==
    /\ pc[r] \in {"daily", "weekly"}
    /\ postResp' = PostResponse(500, NoResults)
    /\ pc' = [pc EXCEPT ![r] = "idle"]
    /\ body' = [body EXCEPT ![r] = NoBody]
    /\ results' = [results EXCEPT ![r] = NoResults]
    /\ UNCHANGED <<tz, dailyCol, weeklyCol, getResp, lastWrite, nSubmits, harnessVars>>

-----------------------------------------------------------------------------
(* GET /api/horoscopes/:signId and GET /api/horoscopes.  Every request     *)
(* carries its date; `type` may be left out.                               *)

\* The characters of a sign id, in collation order.
Alphabet == Digits \o <<"x">>

CharRank(c) == CHOOSE i \in 1..Len(Alphabet) : Alphabet[i] = c

RECURSIVE StrLess(_, _)
StrLess(a, b) ==
    IF b = <<>> THEN FALSE
    ELSE IF a = <<>> THEN TRUE
    ELSE IF Head(a) # Head(b) THEN CharRank(Head(a)) < CharRank(Head(b))
    ELSE StrLess(Tail(a), Tail(b))

\* Mutant: the descending order.
IdLessDescending(a, b) ==
    \/ b.t = "number" /\ a.t = "string"
    \/ b.t = "number" /\ a.t = "number" /\ b.n < a.n
    \/ b.t = "string" /\ a.t = "string" /\ StrLess(b.s, a.s)

\* The store's order of sign_id values: numbers before strings.
IdLess(a, b) ==
    \/ a.t = "number" /\ b.t = "string"
    \/ a.t = "number" /\ b.t = "number" /\ a.n < b.n
    \/ a.t = "string" /\ b.t = "string" /\ StrLess(a.s, b.s)

RECURSIVE SortBySignId(_)
\* cursor.sort({sign_id: 1}).toArray()
SortBySignId(docs) ==
    IF docs = {} THEN <<>>
    ELSE LET first == CHOOSE d \in docs :
                        \A e \in docs : ~IdLess(e.sign_id, d.sign_id)
         IN  <<first>> \o SortBySignId(docs \ {first})

SignIdParams == {<<"1">>, <<"x">>}

TypeParams == {Undefined, Str(<<"daily">>), Str(<<"weekly">>)}

\* req.query.type || 'daily'
TypeOf(typeQ) == IF Truthy(typeQ) THEN typeQ ELSE Str(<<"daily">>)

IsWeekly(typeQ) == TypeOf(typeQ) = Str(<<"weekly">>)

\* lines 132-140 and 176-184: the collection, the date field and the date
\* the query is made with
QueryDate(date, typeQ) ==
    IF IsWeekly(typeQ) THEN Str(WeekStarts[date, tz]) ELSE Str(date)

DateField(typeQ) == IF IsWeekly(typeQ) THEN "week_start_date" ELSE "horoscope_date"

Collection(typeQ) == IF IsWeekly(typeQ) THEN weeklyCol ELSE dailyCol

\* The response object made of a document.
Format(doc, dateField) ==
    [id |-> doc.sign_id,
     sign_name |-> doc.sign_name,
     symbol |-> doc.symbol,
     daily_horoscope |-> OrEmpty(Field(doc, "daily_horoscope")),
     weekly_horoscope |-> OrEmpty(Field(doc, "weekly_horoscope")),
     horoscope_date |-> doc[dateField]]

\* What GET /api/horoscopes/:signId answers.
FetchOneResult(param, date, typeQ, storeOk) ==
    LET dateField == DateField(typeQ)
        query  == (dateField :> QueryDate(date, typeQ)) @@ [sign_id |-> parseInt(param)]
        result == findOne(Collection(typeQ), query)
    IN  IF ~storeOk THEN [status |-> 500, out |-> <<>>]
        ELSE IF result = <<>> THEN [status |-> 404, out |-> <<>>]
        ELSE [status |-> 200, out |-> <<Format(result, dateField)>>]

FetchOne(param, date, typeQ, storeOk) ==
    /\ LET a == FetchOneResult(param, date, typeQ, storeOk)
       IN  getResp' = GetResponse("fetchOne", a.status, a.out)
    /\ UNCHANGED <<tz, dailyCol, weeklyCol, pc, body, results, postResp,
                   lastWrite, nSubmits, harnessVars>>

\* What GET /api/horoscopes answers.
FetchAllResult(date, typeQ, storeOk) ==
    LET dateField == DateField(typeQ)
        query   == (dateField :> QueryDate(date, typeQ))
        found   == SortBySignId(Find(Collection(typeQ), query))
    IN  IF ~storeOk THEN [status |-> 500, out |-> <<>>]
        ELSE [status |-> 200,
              out |-> [i \in 1..Len(found) |-> Format(found[i], dateField)]]

FetchAll(date, typeQ, storeOk) ==
    /\ LET a == FetchAllResult(date, typeQ, storeOk)
       IN  getResp' = GetResponse("fetchAll", a.status, a.out)
    /\ UNCHANGED <<tz, dailyCol, weeklyCol, pc, body, results, postResp,
                   lastWrite, nSubmits, harnessVars>>

Next ==
    \/ \E r \in Slots, b \in PostBodies : Submit(r, b)
    \/ \E r \in Slots : DailyUpsert(r)
    \/ \E r \in Slots : WeeklyUpsert(r)
    \/ \E r \in Slots : StoreFailure(r)

Init ==
    /\ tz \in TZOffsets
    /\ ServerInit
    /\ phase = "start"
    /\ arg = <<NoDate, NoDate>>
    /\ ret = <<NoDate, NoDate>>
    /\ ret2 = NoDate

Spec == Init /\ [][Next]_vars

\* One POST at a time, with the GET handlers.
NextRead ==
    \/ \E b \in ReadBodies : Submit(1, b)
    \/ DailyUpsert(1)
    \/ WeeklyUpsert(1)
    \/ StoreFailure(1)
    \/ \E p \in SignIdParams, d \in RequestDates, ty \in TypeParams :
            FetchOne(p, d, ty, TRUE)
    \/ \E ty \in TypeParams : FetchOne(<<"1">>, Wednesday, ty, FALSE)
    \/ \E d \in RequestDates, ty \in TypeParams : FetchAll(d, ty, TRUE)
    \/ \E ty \in TypeParams : FetchAll(Wednesday, ty, FALSE)

SpecRead == Init /\ [][NextRead]_vars

-----------------------------------------------------------------------------
(* Claims about the concurrent POST handlers (Spec)                        *)

DailyKey(id, date) == [sign_id |-> id, horoscope_date |-> date]

WeeklyKey(id, date) == [sign_id |-> id, week_start_date |-> date]

\* The documents of the store of `kind` with key (id, date).
RecordsOf(kind, id, date) ==
    IF kind = "daily" THEN Find(dailyCol, DailyKey(id, date))
    ELSE Find(weeklyCol, WeeklyKey(id, date))

\* The document a POST with body b leaves under its daily key.
DailyDocOf(b) ==
    [sign_id |-> b.sign_id, horoscope_date |-> b.horoscope_date,
     sign_name |-> b.sign_name, symbol |-> b.symbol,
     daily_horoscope |-> b.daily_horoscope]

\* The document a POST with body b leaves under the weekly key (id, ws).
WeeklyDocOf(b, ws) ==
    [sign_id |-> b.sign_id, week_start_date |-> ws,
     sign_name |-> b.sign_name, symbol |-> b.symbol,
     weekly_horoscope |-> b.weekly_horoscope]

\* C1: each store holds exactly one record for every key that has been
\* successfully upserted, and no key of either store has two records.
C1_OneRecordPerKey ==
    /\ \A w \in lastWrite : Cardinality(RecordsOf(w.kind, w.sign_id, w.date)) = 1
    /\ \A d \in dailyCol :
          Cardinality(RecordsOf("daily", d.sign_id, d.horoscope_date)) = 1
    /\ \A d \in weeklyCol :
          Cardinality(RecordsOf("weekly", d.sign_id, d.week_start_date)) = 1

\* C1 witness: a POST has answered that both of its upserts updated a record
\* that existed, and both stores hold a record.
C1_Witness ==
    /\ postResp.status = 200
    /\ postResp.results = [daily |-> "updated", weekly |-> "updated"]
    /\ dailyCol # {}
    /\ weeklyCol # {}

\* The step of slot r that writes `doc` under `key` of a store leaves, under
\* that key, `doc` whole and nothing else, and every other record as it was.
WholeWrite(old, new, key, doc) ==
    /\ Find(new, key) = {doc}
    /\ new \ {doc} = old \ Find(old, key)

\* C2: whatever the interleaving of the POSTs in flight, every write to a
\* key is one step that leaves under that key the whole field set of the
\* writing call (never a mix with another call's fields) and changes no
\* other record; a store changes in no other step.
C2_WholeFieldSet ==
    [][/\ \A r \in Slots :
            /\ DailyUpsert(r) =>
                  WholeWrite(dailyCol, dailyCol',
                             DailyKey(body[r].sign_id, body[r].horoscope_date), DailyDocOf(body[r]))
            /\ WeeklyUpsert(r) =>
                  WholeWrite(weeklyCol, weeklyCol',
                             WeeklyKey(body[r].sign_id, WeekStartOf(body[r])),
                             WeeklyDocOf(body[r], WeekStartOf(body[r])))
       /\ (\A r \in Slots : ~DailyUpsert(r)) => dailyCol' = dailyCol
       /\ (\A r \in Slots : ~WeeklyUpsert(r)) => weeklyCol' = weeklyCol]_vars

\* C2 witness: the POST in slot 1 has written its daily record and is still
\* in flight, and its record has since been overwritten by the other POST,
\* which ran concurrently with it in slot 2.
C2_Witness ==
    /\ pc[1] = "weekly"
    /\ pc[2] = "idle"
    /\ nSubmits = 2
    /\ \E d \in Find(dailyCol, DailyKey(body[1].sign_id, body[1].horoscope_date)) :
          /\ d.sign_name # body[1].sign_name
          /\ d.symbol # body[1].symbol
          /\ d.daily_horoscope # body[1].daily_horoscope

\* C3: an upsert to a key that already has a record leaves one record under
\* that key, with the sign_name, symbol and text of this (the second)
\* submission; it adds no record, and when the record already holds the
\* submission's fields the store is left exactly as it was.
C3_SecondSubmissionOverwrites ==
    [][\A r \in Slots :
          /\ (DailyUpsert(r) /\ Find(dailyCol, DailyKey(body[r].sign_id, body[r].horoscope_date)) # {}) =>
                /\ Find(dailyCol', DailyKey(body[r].sign_id, body[r].horoscope_date)) = {DailyDocOf(body[r])}
                /\ Cardinality(dailyCol') = Cardinality(dailyCol)
                /\ (DailyDocOf(body[r]) \in dailyCol => dailyCol' = dailyCol)
          /\ (WeeklyUpsert(r) /\ Find(weeklyCol, WeeklyKey(body[r].sign_id, WeekStartOf(body[r]))) # {}) =>
                /\ Find(weeklyCol', WeeklyKey(body[r].sign_id, WeekStartOf(body[r])))
                      = {WeeklyDocOf(body[r], WeekStartOf(body[r]))}
                /\ Cardinality(weeklyCol') = Cardinality(weeklyCol)
                /\ (WeeklyDocOf(body[r], WeekStartOf(body[r])) \in weeklyCol
                      => weeklyCol' = weeklyCol)]_vars

\* C3 witness: two POSTs have been handled, the second answered that its
\* daily upsert updated the existing record, and the store holds one record.
C3_Witness ==
    /\ nSubmits = 2
    /\ \A r \in Slots : pc[r] = "idle"
    /\ postResp.status = 200
    /\ postResp.results.daily = "updated"
    /\ Cardinality(dailyCol) = 1

\* C4: when a POST writes its weekly text and an earlier POST of the same
\* sign_id, with a different horoscope_date of the same Monday-to-Sunday
\* week, has written its weekly text, the two have upserted the same record:
\* afterwards the records under the two calls' keys are one record, holding
\* the weekly_horoscope, sign_name and symbol of the second call.
C4_SameWeekSameRecord ==
    [][\A r \in Slots : \A w \in lastWrite :
          (/\ WeeklyUpsert(r)
           /\ w.kind = "weekly"
           /\ w.req.sign_id = body[r].sign_id
           /\ w.req.horoscope_date # body[r].horoscope_date
           /\ SameWeek(w.req.horoscope_date.s, body[r].horoscope_date.s)) =>
              LET b == body[r]
                  written == {d \in weeklyCol' :
                                 /\ d.sign_id = b.sign_id
                                 /\ d.week_start_date \in {w.date, WeekStartOf(b)}}
              IN  /\ Cardinality(written) = 1
                  /\ \A d \in written :
                        /\ d.weekly_horoscope = b.weekly_horoscope
                        /\ d.sign_name = b.sign_name
                        /\ d.symbol = b.symbol]_vars

\* C7: the week_start_date of every stored weekly record is a Monday, and
\* for the POST that last wrote a weekly record it is the Monday of the week
\* that contains that POST's horoscope_date.
C7_WeekStartIsMonday ==
    /\ \A d \in weeklyCol : IsMonday(d.week_start_date.s)
    /\ \A w \in lastWrite :
          w.kind = "weekly" =>
              DayOfDate(w.date.s)
                  = MondayOnOrBefore(DayOfDate(w.req.horoscope_date.s))

\* A required field that is missing or empty.
MissingOrEmpty(v) == v = Undefined \/ v = EmptyStr

\* C10: a POST in which sign_id, sign_name, symbol or horoscope_date is
\* missing or empty is answered 400 in the step that receives it, with both
\* stores unchanged and nothing left in flight that could write later, even
\* when it carries both texts.
C10_ValidationNoWrite ==
    [][\A r \in Slots, b \in Bodies :
          (Submit(r, b) /\ \E f \in RequiredFields : MissingOrEmpty(b[f])) =>
              /\ postResp'.status = 400
              /\ dailyCol' = dailyCol
              /\ weeklyCol' = weeklyCol
              /\ pc' = pc]_vars

\* C10 witness: a POST has been answered 400 while the stores hold records.
C10_Witness ==
    /\ postResp.status = 400
    /\ dailyCol # {}

\* A text that is given and not empty.
HasText(v) == v.t = "string" /\ v.s # <<>>

\* C11: when a POST with both texts has written its daily record and its
\* weekly updateOne then fails, the response reports the daily success (the
\* daily sub-result the handler had recorded) next to the failure.
C11_DailySuccessReported ==
    [][\A r \in Slots :
          (/\ StoreFailure(r)
           /\ pc[r] = "weekly"
           /\ HasText(body[r].daily_horoscope)
           /\ HasText(body[r].weekly_horoscope)
           /\ results[r].daily # "none") =>
              postResp'.results.daily = results[r].daily]_vars

\* C12: a POST that is answered 500 has inserted no record: no updateOne of
\* that call had taken effect in a store when the failure was answered.
C12_FailureWroteNothing ==
    [][\A r \in Slots :
          (StoreFailure(r) /\ postResp'.status = 500) =>
              results[r].daily # "upsertedId"]_vars

\* C15: the step that completes a POST carrying a daily text and no weekly
\* text (absent or empty) answers 200 with a daily sub-result only, leaves
\* under the daily key exactly the record made of the request, leaves the
\* weekly store as it was and leaves no write of that call pending.
C15_DailyOnlyLeavesWeekly ==
    [][\A r \in Slots :
          (/\ DailyUpsert(r)
           /\ HasText(body[r].daily_horoscope)
           /\ ~HasText(body[r].weekly_horoscope)) =>
              /\ postResp'.status = 200
              /\ postResp'.results.daily # "none"
              /\ postResp'.results.weekly = "none"
              /\ {[f \in DOMAIN DailyDocOf(body[r]) |-> d[f]] :
                     d \in {e \in dailyCol' :
                              /\ e.sign_id = body[r].sign_id
                              /\ e.horoscope_date = body[r].horoscope_date}}
                    = {DailyDocOf(body[r])}
              /\ weeklyCol' = weeklyCol
              /\ pc'[r] = "idle"]_vars

\* C15 witness: a POST with a daily text only has created its daily record
\* and no request is in flight; the weekly store is empty.
C15_Witness ==
    /\ postResp.status = 200
    /\ postResp.results = [daily |-> "upsertedId", weekly |-> "none"]
    /\ \A r \in Slots : pc[r] = "idle"
    /\ dailyCol # {}
    /\ weeklyCol = {}

\* C16: a POST with every required field and neither text (absent or empty)
\* is answered 200 in the step that receives it, with a result that has no
\* daily and no weekly sub-result, both stores unchanged and nothing left in
\* flight.
C16_NoTextNoWrite ==
    [][\A r \in Slots, b \in Bodies :
          (/\ Submit(r, b)
           /\ \A f \in RequiredFields : ~MissingOrEmpty(b[f])
           /\ ~HasText(b.daily_horoscope)
           /\ ~HasText(b.weekly_horoscope)) =>
              /\ postResp' = [status |-> 200,
                              results |-> [daily |-> "none", weekly |-> "none"]]
              /\ dailyCol' = dailyCol
              /\ weeklyCol' = weeklyCol
              /\ pc' = pc]_vars

\* C16 witness: a POST without texts has been answered 200 with no
\* sub-result while the daily store holds a record.
C16_Witness ==
    /\ postResp = [status |-> 200, results |-> [daily |-> "none", weekly |-> "none"]]
    /\ nSubmits = 2
    /\ dailyCol # {}

\* C19: every stored daily record has a non-empty daily_horoscope, every
\* stored weekly record a non-empty weekly_horoscope, and every POST that
\* wrote a record of a kind carried a non-empty text of that kind.
C19_StoredTextNonEmpty ==
    /\ \A d \in dailyCol : HasText(d.daily_horoscope)
    /\ \A d \in weeklyCol : HasText(d.weekly_horoscope)
    /\ \A w \in lastWrite :
          IF w.kind = "daily" THEN HasText(w.req.daily_horoscope)
          ELSE HasText(w.req.weekly_horoscope)

\* C19 witness: a POST with an empty daily text and a weekly text has been
\* completed for a sign and date whose daily record exists.
C19_Witness ==
    /\ \A r \in Slots : pc[r] = "idle"
    /\ \E w \in lastWrite :
          /\ w.kind = "weekly"
          /\ w.req.daily_horoscope = EmptyStr
          /\ \E d \in dailyCol :
                /\ d.sign_id = w.req.sign_id
                /\ d.horoscope_date = w.req.horoscope_date

-----------------------------------------------------------------------------
(* Claims about the GET handlers (SpecRead)                                *)

\* The text of a sign id in the path of a GET request.
ToParam(id) == IF id.t = "number" THEN <<Digits[id.n + 1]>> ELSE id.s

\* C8: when the last POST that wrote the daily record of (s, d) carried
\* daily text t and no weekly text, GET /api/horoscopes/s?date=d with type
\* daily (given or defaulted) answers 200 with id = s, the submitted
\* sign_name and symbol, daily_horoscope = t, weekly_horoscope = "" and
\* horoscope_date = d, for every sign_id the POST accepts.
C8_FetchAfterDailySubmit ==
    [][\A w \in lastWrite : \A ty \in {Undefined, Str(<<"daily">>)} :
          (/\ w.kind = "daily"
           /\ ~Truthy(OrEmpty(w.req.weekly_horoscope))
           /\ FetchOne(ToParam(w.req.sign_id), w.req.horoscope_date.s, ty, TRUE)) =>
              getResp' = GetResponse("fetchOne", 200,
                            <<[id |-> w.req.sign_id,
                               sign_name |-> w.req.sign_name,
                               symbol |-> w.req.symbol,
                               daily_horoscope |-> w.req.daily_horoscope,
                               weekly_horoscope |-> EmptyStr,
                               horoscope_date |-> w.req.horoscope_date]>>)]_vars

\* C9: when the last POST that wrote a weekly record had (numeric) sign_id
\* s, horoscope_date d and weekly text w, GET /api/horoscopes/s?type=weekly
\* with any date of the Monday-to-Sunday week of d answers 200 with
\* weekly_horoscope = w and horoscope_date = the Monday of that week.
C9_FetchWeeklySameWeek ==
    [][\A w \in lastWrite : \A d \in RequestDates :
          (/\ w.kind = "weekly"
           /\ w.req.sign_id.t = "number"
           /\ SameWeek(w.req.horoscope_date.s, d)
           /\ FetchOne(ToParam(w.req.sign_id), d, Str(<<"weekly">>), TRUE)) =>
              /\ getResp'.status = 200
              /\ getResp'.out[1].weekly_horoscope = w.req.weekly_horoscope
              /\ DayOfDate(getResp'.out[1].horoscope_date.s)
                    = MondayOnOrBefore(DayOfDate(d))]_vars

\* A sign id in the path of a GET request that is a number: digits only.
IsNumericParam(p) == p # <<>> /\ \A i \in 1..Len(p) : IsDigit(p[i])

\* C13: GET /api/horoscopes/:signId with a sign id that is not numeric is
\* answered with a validation error (400), not with the 404 of a lookup
\* that found nothing.
C13_NonNumericIdRejected ==
    [][\A p \in SignIdParams, d \in RequestDates, ty \in TypeParams :
          (FetchOne(p, d, ty, TRUE) /\ ~IsNumericParam(p)) =>
              getResp'.status = 400]_vars

\* The kind a GET with query parameter `type` asks for.
KindOf(typeQ) == IF typeQ = Str(<<"weekly">>) THEN "weekly" ELSE "daily"

\* The period a GET for `date` and `type` resolves to: the date itself, or
\* getWeekStart(date).
PeriodOf(date, typeQ) ==
    IF KindOf(typeQ) = "weekly" THEN Str(WeekStarts[date, tz]) ELSE Str(date)

\* C14: GET /api/horoscopes/:signId for a sign, date and kind whose key
\* (the parsed sign id and the resolved period) has no record in the store
\* of that kind is answered 404 with no record, whatever the store of the
\* other kind holds: no step with another answer is such a GET.
C14_MissingRecordNotFound ==
    [][\A p \in SignIdParams, d \in RequestDates, ty \in TypeParams :
          (/\ getResp'.op = "fetchOne"
           /\ getResp' # [op |-> "fetchOne", status |-> 404, out |-> <<>>]
           /\ RecordsOf(KindOf(ty), parseInt(p), PeriodOf(d, ty)) = {}) =>
              ~FetchOne(p, d, ty, TRUE)]_vars

\* C14 witness: a GET of one record has been answered 404 while the daily
\* store holds records and the weekly store none.
C14_Witness ==
    /\ getResp = [op |-> "fetchOne", status |-> 404, out |-> <<>>]
    /\ dailyCol # {}
    /\ weeklyCol = {}

\* The records of the kind and period a GET for `date` and `type` asks for.
PeriodRecords(date, typeQ) ==
    IF KindOf(typeQ) = "weekly"
    THEN {e \in weeklyCol : e.week_start_date = PeriodOf(date, typeQ)}
    ELSE {e \in dailyCol : e.horoscope_date = PeriodOf(date, typeQ)}

\* The text of a record of the kind `type` asks for.
TextOf(e, typeQ) ==
    IF KindOf(typeQ) = "weekly" THEN e.weekly_horoscope ELSE e.daily_horoscope

\* The text of that kind in a response object.
TextIn(o, typeQ) ==
    IF KindOf(typeQ) = "weekly" THEN o.weekly_horoscope ELSE o.daily_horoscope

\* C17: GET /api/horoscopes for a date and kind is answered 200 with as
\* many objects as the store of that kind holds records of the resolved
\* period, one for each of them, numeric sign ids ascending; with no such
\* record the answer is 200 with the empty sequence.
C17_FetchAllExactAndOrdered ==
    [][\A d \in RequestDates, ty \in TypeParams :
          (getResp'.op = "fetchAll" /\ FetchAll(d, ty, TRUE)) =>
              LET recs == PeriodRecords(d, ty)
                  out  == getResp'.out
              IN  /\ getResp'.status = 200
                  /\ Len(out) = Cardinality(recs)
                  /\ \A e \in recs : \E i \in 1..Len(out) :
                        /\ out[i].id = e.sign_id
                        /\ out[i].sign_name = e.sign_name
                        /\ out[i].symbol = e.symbol
                        /\ TextIn(out[i], ty) = TextOf(e, ty)
                        /\ out[i].horoscope_date = PeriodOf(d, ty)
                  /\ \A i, j \in 1..Len(out) :
                        (i < j /\ out[i].id.t = "number" /\ out[j].id.t = "number")
                            => out[i].id.n < out[j].id.n]_vars

\* C17 witness: a GET of all records has been answered with the records of
\* signs 1 and 2, in that order.
C17_Witness ==
    /\ getResp.op = "fetchAll"
    /\ getResp.status = 200
    /\ Len(getResp.out) = 2
    /\ getResp.out[1].id = Num(1)
    /\ getResp.out[2].id = Num(2)

\* C18: in every step (of a POST or of a GET) every record of either store
\* stays: after the step its store holds exactly one record with its key,
\* made of the same fields.
C18_RecordsPersist ==
    [][/\ \A e \in dailyCol :
             \E x \in dailyCol' :
                /\ DOMAIN x = DOMAIN e
                /\ {y \in dailyCol' : /\ y.sign_id = e.sign_id
                                       /\ y.horoscope_date = e.horoscope_date} = {x}
       /\ \A e \in weeklyCol :
             \E x \in weeklyCol' :
                /\ DOMAIN x = DOMAIN e
                /\ {y \in weeklyCol' : /\ y.sign_id = e.sign_id
                                        /\ y.week_start_date = e.week_start_date} = {x}]_vars

\* C18 witness: a second POST has updated the one daily record in place and
\* a GET has then read it.
C18_Witness ==
    /\ postResp = [status |-> 200, results |-> [daily |-> "updated", weekly |-> "none"]]
    /\ Cardinality(dailyCol) = 1
    /\ getResp.op = "fetchOne"
    /\ getResp.status = 200

-----------------------------------------------------------------------------
(* Harness for the pure function getWeekStart: the inputs are drawn from   *)
(* every day from 2023-12-25 to 2025-01-07 (the leap year 2024 and both    *)
(* of its year boundaries).                                                *)

HarnessDates ==
    {s \in Years \X (1..12) \X (1..31) :
        /\ s[3] <= DaysInMonth(s[1], s[2])
        /\ DayOfDate(s) >= DayFromYear(2024) - 7
        /\ DayOfDate(s) <= DayFromYear(2025) + 6}

HarnessInit ==
    /\ tz \in TZOffsets
    /\ ServerInit
    /\ phase = "start"
    /\ arg \in {a \in HarnessDates \X HarnessDates :
                    /\ DayOfDate(a[2]) - DayOfDate(a[1]) <= MaxSpan
                    /\ DayOfDate(a[1]) - DayOfDate(a[2]) <= MaxSpan}
    /\ ret = <<NoDate, NoDate>>
    /\ ret2 = NoDate

\* getWeekStart(d1), getWeekStart(d2)
CallGetWeekStart ==
    /\ phase = "start"
    /\ ret' = <<getWeekStart(arg[1], tz), getWeekStart(arg[2], tz)>>
    /\ phase' = "called"
    /\ UNCHANGED <<tz, arg, ret2, serverVars>>

\* getWeekStart(getWeekStart(d1))
CallGetWeekStartAgain ==
    /\ phase = "called"
    /\ ret2' = getWeekStart(ret[1], tz)
    /\ phase' = "again"
    /\ UNCHANGED <<tz, arg, ret, serverVars>>

HarnessNext == CallGetWeekStart \/ CallGetWeekStartAgain

SpecWeek == HarnessInit /\ [][HarnessNext]_vars


-----------------------------------------------------------------------------
(* Claims about getWeekStart (SpecWeek)                                    *)

\* C5: for every date d of the harness, getWeekStart(d) is a Monday, namely
\* d plus the offset (-6 when d is a Sunday, otherwise 1 minus d's day of
\* the week), so it is never after d and never more than 6 days before it.
C5_WeekStartIsMonday ==
    phase # "start" =>
        LET n   == DayOfDate(arg[1])
            dow == WeekDay(n)
            m   == DayOfDate(ret[1])
        IN  /\ IsMonday(ret[1])
            /\ m = n + (IF dow = 0 THEN -6 ELSE 1 - dow)
            /\ m <= n
            /\ n - m <= 6

\* C6: two dates of the same Monday-to-Sunday span have the same
\* getWeekStart, and getWeekStart(getWeekStart(d)) = getWeekStart(d).
C6_SameWeekSameStart ==
    /\ (phase # "start" /\ SameWeek(arg[1], arg[2])) => ret[1] = ret[2]
    /\ phase = "again" => ret2 = ret[1]

=============================================================================
